---- MODULE Spec2Model ----
(***************************************************************************)
(* Model of codex.ops.illumination_correction.IlluminationCorrection:      *)
(* the region data cache (prepare_region_data / save_region_data) and the  *)
(* tile corrector (_run), including the float32 arithmetic of _run.        *)
(***************************************************************************)
EXTENDS Integers, Sequences, FiniteSets, TLC

(***************************************************************************)
(* Bounds of the model.                                                    *)
(***************************************************************************)
\* region_index values are 1..MaxRegion
MaxRegion == 2
\* tile_height and tile_width are drawn from 1..MaxTileDim
MaxTileDim == 2
\* region_height and region_width (in tiles) are drawn from 1..MaxGridDim
MaxGridDim == 2
\* the write counter of one region's artifact saturates at MaxWrites
MaxWrites == 2

(***************************************************************************)
(* numpy float32: a value is sign * m * 2^e, kept canonical (m odd, or     *)
(* m = 0 and e = 0), or an infinity, or NaN.  The significand holds 24     *)
(* bits; results round to nearest, ties to even.  Exponent overflow and    *)
(* subnormals are out of reach of the magnitudes used here (< 2^40).       *)
(***************************************************************************)
\* the number of bits of n >= 0 (0 for 0)
RECURSIVE BitLen(_)
BitLen(n) ==
    IF n >= 65536 THEN 16 + BitLen(n \div 65536)
    ELSE IF n >= 256 THEN 8 + BitLen(n \div 256)
    ELSE IF n >= 16 THEN 4 + BitLen(n \div 16)
    ELSE IF n >= 4 THEN 2 + BitLen(n \div 4)
    ELSE IF n >= 2 THEN 2
    ELSE n

\* the canonical form of s * m * 2^e: trailing zero bits of m move into e
RECURSIVE Canon(_, _, _)
Canon(s, m, e) ==
    IF m = 0 THEN [k |-> "num", s |-> s, m |-> 0, e |-> 0]
    ELSE IF m % 65536 = 0 THEN Canon(s, m \div 65536, e + 16)
    ELSE IF m % 256 = 0 THEN Canon(s, m \div 256, e + 8)
    ELSE IF m % 16 = 0 THEN Canon(s, m \div 16, e + 4)
    ELSE IF m % 4 = 0 THEN Canon(s, m \div 4, e + 2)
    ELSE IF m % 2 = 0 THEN Canon(s, m \div 2, e + 1)
    ELSE [k |-> "num", s |-> s, m |-> m, e |-> e]

FInf(s) == [k |-> "inf", s |-> s, m |-> 0, e |-> 0]
FNaN == [k |-> "nan", s |-> 1, m |-> 0, e |-> 0]

\* q * 2^e (plus a nonzero remainder below q's last bit when sticky) rounded
\* to a 24-bit significand, nearest-even.
RoundF32(s, q, e, sticky) ==
    LET n == BitLen(q) IN
    IF n <= 24 THEN Canon(s, q, e)
    ELSE LET k    == n - 24
             d    == 2 ^ k
             hi   == q \div d
             lo   == q % d
             half == d \div 2
             up   == \/ lo > half
                     \/ lo = half /\ (sticky \/ hi % 2 = 1)
         IN Canon(s, IF up THEN hi + 1 ELSE hi, e + k)

\* an integer of at most 32 bits converted as tile.astype(np.float32) does
IntToF32(n) ==
    IF n = -2147483647 - 1 THEN Canon(-1, 1, 31)
    ELSE IF n < 0 THEN RoundF32(-1, -n, 0, FALSE)
    ELSE RoundF32(1, n, 0, FALSE)

\* floor(r * 2^(6n) / b) continued from quotient q and remainder r < b < 2^24,
\* six quotient bits at a time so that no intermediate exceeds 2^30
RECURSIVE LongDiv(_, _, _, _)
LongDiv(q, r, b, n) ==
    IF n = 0 THEN [q |-> q, r |-> r]
    ELSE LongDiv(q * 64 + (r * 64) \div b, (r * 64) % b, b, n - 1)

\* numpy true division of two float32 values
FDiv(a, b) ==
    LET s == a.s * b.s IN
    IF a.k = "nan" \/ b.k = "nan" THEN FNaN
    ELSE IF a.k = "inf" THEN (IF b.k = "inf" THEN FNaN ELSE FInf(s))
    ELSE IF b.k = "inf" THEN Canon(s, 0, 0)
    ELSE IF b.m = 0 THEN (IF a.m = 0 THEN FNaN ELSE FInf(s))
    ELSE IF a.m = 0 THEN Canon(s, 0, 0)
    ELSE LET la == 24 - BitLen(a.m)
             lb == 24 - BitLen(b.m)
             B  == b.m * (2 ^ lb)
             A0 == a.m * (2 ^ la)
             sh == IF A0 < B THEN 1 ELSE 0
             A  == A0 * (2 ^ sh)
             d  == LongDiv(A \div B, A % B, B, 4)
         IN RoundF32(s, d.q, (a.e - la - sh) - (b.e - lb) - 24, d.r # 0)

\* a < b for two finite float32 values of the same (positive) sign
MagLess(a, b) ==
    LET ta == BitLen(a.m) + a.e
        tb == BitLen(b.m) + b.e
    IN IF a.m = 0 THEN b.m # 0
       ELSE IF b.m = 0 THEN FALSE
       ELSE IF ta # tb THEN ta < tb
       ELSE IF a.e >= b.e THEN a.m * (2 ^ (a.e - b.e)) < b.m
       ELSE a.m < b.m * (2 ^ (b.e - a.e))

\* a < b on float32 values, neither NaN (-0.0 and 0.0 compare equal)
FLess(a, b) ==
    LET za == (a.k = "num" /\ a.m = 0)
        zb == (b.k = "num" /\ b.m = 0)
        sa == IF za THEN 0 ELSE a.s
        sb == IF zb THEN 0 ELSE b.s
    IN IF sa # sb THEN sa < sb
       ELSE IF sa = 0 THEN FALSE
       ELSE IF a.k = "inf" THEN (sa = -1 /\ b.k # "inf")
       ELSE IF b.k = "inf" THEN sa = 1
       ELSE IF sa = 1 THEN MagLess(a, b) ELSE MagLess(b, a)

(***************************************************************************)
(* Integer element types (np.iinfo) and the casts between them and float32 *)
(***************************************************************************)
DTypes ==
    { [name |-> "uint8",  signed |-> FALSE, bits |-> 8],
      [name |-> "int8",   signed |-> TRUE,  bits |-> 8],
      [name |-> "uint16", signed |-> FALSE, bits |-> 16],
      [name |-> "int16",  signed |-> TRUE,  bits |-> 16],
      [name |-> "int32",  signed |-> TRUE,  bits |-> 32] }

\* np.iinfo(dtype).max and .min
IInfoMax(dt) == IF dt.signed THEN (2 ^ (dt.bits - 2) - 1) * 2 + 1 ELSE 2 ^ dt.bits - 1
IInfoMin(dt) == IF dt.signed THEN -IInfoMax(dt) - 1 ELSE 0

\* The builds differ in what an out-of-range float -> int conversion yields
\* (undefined behaviour in C): x86 cvttss2si gives the "integer indefinite"
\* value INT32_MIN, AArch64 fcvtzs saturates and maps NaN to 0.
Builds == {"x86_64", "aarch64"}

\* truncation of a float32 toward zero into a 32-bit signed register
ToInt32(build, f) ==
    LET imax == 2147483647
        imin == -2147483647 - 1
        fits == f.k = "num" /\ BitLen(f.m) + f.e <= 31
        mag  == IF f.e >= 0 THEN f.m * (2 ^ f.e)
                ELSE IF -f.e > 30 THEN 0 ELSE f.m \div (2 ^ (-f.e))
    IN IF fits THEN f.s * mag
       ELSE IF f.k = "num" /\ f.s = -1 /\ f.m = 1 /\ f.e = 31 THEN imin
       ELSE IF build = "x86_64" THEN imin
       ELSE IF f.k = "nan" THEN 0
       ELSE IF f.s = 1 THEN imax ELSE imin

\* the low dt.bits bits of a 32-bit register read as a value of dt
WrapTo(dt, i) ==
    IF dt.bits = 32 THEN i
    ELSE LET w == 2 ^ dt.bits
             u == i % w
         IN IF dt.signed /\ u >= w \div 2 THEN u - w ELSE u

\* ndarray.astype(dtype) on one float32 element
F32ToInt(build, dt, f) == WrapTo(dt, ToInt32(build, f))

\* ndarray.clip(lo, hi) on one float32 element: the Python int bounds are
\* converted to the array's float32 type; NaN passes through.
ClipF32(f, lo, hi) ==
    LET flo == IntToF32(lo)
        fhi == IntToF32(hi)
    IN IF f.k = "nan" THEN f
       ELSE IF FLess(f, flo) THEN flo
       ELSE IF FLess(fhi, f) THEN fhi
       ELSE f

(***************************************************************************)
(* Configuration consumed by the operator (self.config, self.channel_mapping) *)
(***************************************************************************)
\* channel names in sort order (pd.Series.sort_index orders the sources so)
ChannelOrder == <<"A", "B", "C", "D">>

\* config.get_channel_coordinates: target channel name -> (cycle, channel)
ChannelCoordinates == [A |-> <<0, 0>>, B |-> <<0, 1>>, C |-> <<1, 0>>, D |-> <<1, 1>>]

\* tile axes (cycle, z, channel); height and width come from the config
Cycles == 0 .. 1
ZPlanes == 0 .. 1
Chans == 0 .. 1

NoMapping == [c \in {} |-> "all"]

\* params['channel_mapping'] values used: source channel -> target
ChannelMappings ==
    { NoMapping,
      [c \in {"A"} |-> "all"],
      [c \in {"B"} |-> "C"],
      [c \in {"A", "B"} |-> IF c = "A" THEN "A" ELSE "B"],
      [c \in {"A", "B"} |-> IF c = "A" THEN "all" ELSE "D"],
      [c \in {"A", "B"} |-> "C"] }

\* self.channel_mapping.index / .to_dict().items(): the sources, sorted
Sources(cfg) ==
    SelectSeq(ChannelOrder, LAMBDA c : c \in DOMAIN cfg.channel_mapping)

RegionRows(cfg) == cfg.region_height * cfg.tile_height
RegionCols(cfg) == cfg.region_width * cfg.tile_width

(***************************************************************************)
(* Fitted models and cytometry data.  A fitted GradientBoostingRegressor   *)
(* is represented by the surface it predicts; a cytometry dataframe by,    *)
(* per region_index present and per source channel, the number of cells    *)
(* left by the percentile filters, whether their mean intensity is ~0,     *)
(* and the model that est.fit returns for them.                            *)
(***************************************************************************)
Ests == {"unit", "half", "three", "ramp", "zero", "neg"}

\* est.predict at pixel (ry, rx), as float32
Predict(est, ry, rx) ==
    CASE est = "unit"  -> IntToF32(1)
      [] est = "half"  -> FDiv(IntToF32(1), IntToF32(2))
      [] est = "three" -> IntToF32(3)
      [] est = "ramp"  -> FDiv(IntToF32(4 + 16 * ry + rx), IntToF32(4))
      [] est = "zero"  -> IntToF32(0)
      [] est = "neg"   -> IntToF32(-2)

Regions == 1 .. MaxRegion

NoneData == [none |-> TRUE, dict |-> [r \in {} |-> 0]]
EmptyDict == [r \in {} |-> 0]

DictPut(d, key, val) ==
    [x \in DOMAIN d \cup {key} |-> IF x = key THEN val ELSE d[x]]

\* the keys of an integer-keyed mapping in ascending order (groupby order)
RECURSIVE SortedKeys(_)
SortedKeys(S) ==
    IF S = {} THEN <<>>
    ELSE LET lo == CHOOSE x \in S : \A y \in S : x <= y
         IN <<lo>> \o SortedKeys(S \ {lo})

\* get_illumination_models: one model per source channel, in sorted order;
\* the first channel with no cells left, or with a ~0 mean, raises.
RECURSIVE FitChannels(_, _, _)
FitChannels(region_data, chans, ests) ==
    IF chans = <<>> THEN [exc |-> "none", ests |-> ests]
    ELSE LET channel == Head(chans)
             dfm     == region_data[channel]
         IN IF dfm.kept = 0 THEN [exc |-> "EmptyFilterResult", ests |-> ests]
            ELSE IF dfm.ymean_zero THEN [exc |-> "DegenerateSignal", ests |-> ests]
            ELSE FitChannels(region_data, Tail(chans), DictPut(ests, channel, dfm.fit))

get_illumination_models(cfg, region_data) ==
    FitChannels(region_data, Sources(cfg), [c \in {} |-> "unit"])

\* get_illumination_images: every pixel of the region predicted per channel
get_illumination_images(cfg, ests) ==
    [channel \in DOMAIN ests |->
        [p \in (0 .. RegionRows(cfg) - 1) \X (0 .. RegionCols(cfg) - 1) |->
            Predict(ests[channel], p[1], p[2])]]

\* the loop of prepare_region_data over df.groupby('region_index')
RECURSIVE PrepareLoop(_, _, _, _)
PrepareLoop(cfg, df, regs, dict) ==
    IF regs = <<>> THEN [exc |-> "none", dict |-> dict]
    ELSE LET region_index == Head(regs)
             fit == get_illumination_models(cfg, df[region_index])
         IN IF fit.exc # "none" THEN [exc |-> fit.exc, dict |-> dict]
            ELSE PrepareLoop(cfg, df, Tail(regs),
                     DictPut(dict, region_index,
                         [imgs |-> get_illumination_images(cfg, fit.ests),
                          ests |-> fit.ests]))

\* what self.data is bound to at line 81, before the regions are fitted
FreshData == [none |-> FALSE, dict |-> EmptyDict]

\* prepare_region_data without the early return of lines 72-73
prepare_region_data_refits(cfg, data, df) ==
    IF DOMAIN df = {}
    THEN [exc |-> "EmptyInputError", data |-> data, queried |-> TRUE]
    ELSE LET loop == PrepareLoop(cfg, df, SortedKeys(DOMAIN df), FreshData.dict)
         IN [exc |-> loop.exc,
             data |-> [none |-> FALSE, dict |-> loop.dict],
             queried |-> TRUE]

\* prepare_region_data with line 81 moved above the emptiness check
prepare_region_data_binds_first(cfg, data, df) ==
    IF ~data.none THEN [exc |-> "none", data |-> data, queried |-> FALSE]
    ELSE IF DOMAIN df = {}
         THEN [exc |-> "EmptyInputError", data |-> FreshData, queried |-> TRUE]
    ELSE LET loop == PrepareLoop(cfg, df, SortedKeys(DOMAIN df), FreshData.dict)
         IN [exc |-> loop.exc,
             data |-> [none |-> FALSE, dict |-> loop.dict],
             queried |-> TRUE]

\* prepare_region_data: the exception raised ("none": returns normally),
\* self.data afterwards, and whether the cytometry data was queried
prepare_region_data(cfg, data, df) ==
    IF ~data.none THEN [exc |-> "none", data |-> data, queried |-> FALSE]
    ELSE IF DOMAIN df = {}
         THEN [exc |-> "EmptyInputError", data |-> data, queried |-> TRUE]
    ELSE LET fresh == FreshData
             loop  == PrepareLoop(cfg, df, SortedKeys(DOMAIN df), fresh.dict)
         IN [exc |-> loop.exc,
             data |-> [none |-> fresh.none, dict |-> loop.dict],
             queried |-> TRUE]

\* save_region_data: the exception raised, self.data_saved afterwards and
\* the regions whose artifact codex_io.save_image wrote (once each).
\* np.stack raises on an empty list of images, before the first write.
save_region_data(cfg, data, data_saved) ==
    IF data.none
    THEN [exc |-> "NotPreparedError", data_saved |-> data_saved, wrote |-> {}]
    ELSE IF data_saved
    THEN [exc |-> "none", data_saved |-> data_saved, wrote |-> {}]
    ELSE IF DOMAIN data.dict # {} /\ Sources(cfg) = <<>>
    THEN [exc |-> "ValueError", data_saved |-> data_saved, wrote |-> {}]
    ELSE [exc |-> "none", data_saved |-> TRUE, wrote |-> DOMAIN data.dict]

(***************************************************************************)
(* Tiles.  A tile is its element type and its elements, indexed by         *)
(* (cycle, z, channel, y, x); its height and width are the configured      *)
(* tile_height and tile_width, and tile_indices lies inside the region.    *)
(***************************************************************************)
TileIdx(cfg) ==
    Cycles \X ZPlanes \X Chans \X (0 .. cfg.tile_height - 1) \X (0 .. cfg.tile_width - 1)

NoDType == [name |-> "none", signed |-> FALSE, bits |-> 0]
NoTile == [dtype |-> NoDType, v |-> [i \in {} |-> 0]]
NoPatches == [c \in {} |-> 0]

\* tile.astype(np.float32): a new array, the argument is left as it is
TileToF32(tile) == [i \in DOMAIN tile.v |-> IntToF32(tile.v[i])]

\* the shape of a 2-D array held as a function of (row, column)
ImgRows(img) == Cardinality({p[1] : p \in DOMAIN img})
ImgCols(img) == Cardinality({p[2] : p \in DOMAIN img})

\* Python's min of two integers, used by the slice bounds
Min2(a, b) == IF a <= b THEN a ELSE b

\* img[r:(r + h), c:(c + w)]: a slice is cut to the array, never an error
Slice(img, r, h, c, w) ==
    LET rows == ImgRows(img)
        cols == ImgCols(img)
        r0 == Min2(r, rows)
        r1 == Min2(r + h, rows)
        c0 == Min2(c, cols)
        c1 == Min2(c + w, cols)
    IN [p \in (0 .. r1 - r0 - 1) \X (0 .. c1 - c0 - 1) |-> img[<<r0 + p[1], c0 + p[2]>>]]

\* the row offset taken along the wrong axis
RowOffsetByWidth(cfg, tile_indices) == tile_indices.tile_y * cfg.tile_width

\* line 180: the tile's pixel offsets within its region
RowOffset(cfg, tile_indices) == tile_indices.tile_y * cfg.tile_height
ColOffset(cfg, tile_indices) == tile_indices.tile_x * cfg.tile_width

\* numpy broadcasting of a (ph, pw) patch against the tile's (h, w) planes
Broadcasts(cfg, ph, pw) ==
    /\ ph \in {cfg.tile_height, 1}
    /\ pw \in {cfg.tile_width, 1}

\* whether the mapping entry's target covers the element at index i
Targets(target_channel, i) ==
    \/ target_channel = "all"
    \/ /\ target_channel # "all"
       /\ i[1] = ChannelCoordinates[target_channel][1]
       /\ i[3] = ChannelCoordinates[target_channel][2]

\* the loop pass with the patch normalised in place (img /= img): the patch
\* is a view, so the cached array is written
ApplyEntryInPlace(cfg, imgs, ftile, source_channel, r, c) ==
    LET target_channel == cfg.channel_mapping[source_channel]
        old == imgs[source_channel]
        win == { p \in DOMAIN old : /\ p[1] >= r /\ p[1] < r + cfg.tile_height
                                    /\ p[2] >= c /\ p[2] < c + cfg.tile_width }
        new == [p \in DOMAIN old |-> IF p \in win THEN FDiv(old[p], old[p]) ELSE old[p]]
        img == Slice(new, r, cfg.tile_height, c, cfg.tile_width)
    IN [exc |-> "none",
        tile |-> [i \in DOMAIN ftile |->
                     IF Targets(target_channel, i)
                     THEN FDiv(ftile[i], img[<<i[4], i[5]>>])
                     ELSE ftile[i]],
        img |-> img,
        imgs |-> [imgs EXCEPT ![source_channel] = new]]

\* one pass of the loop at lines 184-200 for one mapping entry: the patch
\* sliced from the source channel's image (a view of the cached array), the
\* float tile afterwards, and the cached images, which no statement writes
ApplyEntry(cfg, imgs, ftile, source_channel, r, c) ==
    LET target_channel == cfg.channel_mapping[source_channel]
        img == Slice(imgs[source_channel], r, cfg.tile_height, c, cfg.tile_width)
        ph  == ImgRows(img)
        pw  == ImgCols(img)
    IN IF ~Broadcasts(cfg, ph, pw)
       THEN [exc |-> "ValueError", tile |-> ftile, img |-> img, imgs |-> imgs]
       ELSE [exc |-> "none",
             tile |-> [i \in DOMAIN ftile |->
                          IF Targets(target_channel, i)
                          THEN FDiv(ftile[i], img[<<IF ph = 1 THEN 0 ELSE i[4],
                                                    IF pw = 1 THEN 0 ELSE i[5]>>])
                          ELSE ftile[i]],
             img |-> img,
             imgs |-> imgs]

RECURSIVE RunLoop(_, _, _, _, _, _, _)
RunLoop(cfg, imgs, ftile, chans, r, c, patches) ==
    IF chans = <<>>
    THEN [exc |-> "none", tile |-> ftile, patches |-> patches, imgs |-> imgs]
    ELSE LET step == ApplyEntry(cfg, imgs, ftile, Head(chans), r, c)
         IN IF step.exc # "none"
            THEN [exc |-> step.exc, tile |-> ftile, patches |-> patches,
                  imgs |-> step.imgs]
            ELSE RunLoop(cfg, step.imgs, step.tile, Tail(chans), r, c,
                         DictPut(patches, Head(chans), step.img))

\* line 203: tile.clip(dinfo.min, dinfo.max).astype(dtype)
ClipAndCast(build, dtype, ftile) ==
    [dtype |-> dtype,
     v |-> [i \in DOMAIN ftile |->
              F32ToInt(build, dtype, ClipF32(ftile[i], IInfoMin(dtype), IInfoMax(dtype)))]]

\* the lookup done as self.data.setdefault(region_index, ...) before failing
LookupSetDefault(data, region_index) ==
    IF data.none THEN [exc |-> "NotPreparedError", data |-> data]
    ELSE IF region_index \notin DOMAIN data.dict
    THEN [exc |-> "UnpreparedRegionError",
          data |-> [data EXCEPT !.dict = DictPut(@, region_index,
                                                 [imgs |-> NoPatches, ests |-> NoPatches])]]
    ELSE [exc |-> "none", data |-> data]

\* line 173: self.data[tile_indices.region_index][0].  Subscripting None
\* is a TypeError (correction before the region data is built), a missing
\* key a KeyError (a region absent from the cache); self.data is not changed.
Lookup(data, region_index) ==
    IF data.none THEN [exc |-> "NotPreparedError", data |-> data]
    ELSE IF region_index \notin DOMAIN data.dict
    THEN [exc |-> "UnpreparedRegionError", data |-> data]
    ELSE [exc |-> "none", data |-> data]

\* line 183: tile.astype(np.float32) copies; the argument keeps its elements
Astype32(tile) == [src |-> tile, out |-> TileToF32(tile)]

\* self.data with one region's cached images as the loop left them
WithImgs(data, region_index, imgs) ==
    [data EXCEPT !.dict = [@ EXCEPT ![region_index] = [@ EXCEPT !.imgs = imgs]]]

\* _run: the exception raised, the tile returned, the patches sliced, and
\* self.data and the argument array afterwards
_run(cfg, build, data, tile, tile_indices) ==
    LET look == Lookup(data, tile_indices.region_index) IN
    IF look.exc # "none"
    THEN [exc |-> look.exc, tile |-> NoTile, patches |-> NoPatches,
          data |-> look.data, arg |-> tile]
    ELSE LET imgs == look.data.dict[tile_indices.region_index].imgs
             conv == Astype32(tile)
             loop == RunLoop(cfg, imgs, conv.out, Sources(cfg),
                             RowOffset(cfg, tile_indices), ColOffset(cfg, tile_indices),
                             NoPatches)
             after == WithImgs(look.data, tile_indices.region_index, loop.imgs)
         IN IF loop.exc # "none"
            THEN [exc |-> loop.exc, tile |-> NoTile, patches |-> loop.patches,
                  data |-> after, arg |-> conv.src]
            ELSE [exc |-> "none", tile |-> ClipAndCast(build, tile.dtype, loop.tile),
                  patches |-> loop.patches, data |-> after, arg |-> conv.src]

(***************************************************************************)
(* State of one IlluminationCorrection instance and of its surroundings    *)
(***************************************************************************)
VARIABLES
    config,      \* self.config and self.channel_mapping, fixed by __init__
    build,       \* the platform numpy was built for
    data,        \* self.data: None, or region_index -> (imgs, ests)
    data_saved,  \* self.data_saved
    writes,      \* region_index -> number of codex_io.save_image calls made
    hist,        \* history of the calls made so far
    last,        \* the most recent completed call and what it returned
    wk           \* the _run calls in progress, per worker thread

vars == <<config, build, data, data_saved, writes, hist, last, wk>>

NoIndices == [region_index |-> 0, tile_x |-> 0, tile_y |-> 0]

NoCall ==
    [op |-> "none", exc |-> "none", queried |-> FALSE, wrote |-> {},
     arg |-> NoTile, idx |-> NoIndices, ret |-> NoTile, patches |-> NoPatches]

Workers == {"w1", "w2"}

\* a worker: where its _run call stands (pc), the argument array (arg) and
\* its elements when the call was made (passed), the mapping entries still
\* to apply (chans), the float copy (work), and the outcome (exc, ret)
IdleWorker ==
    [pc |-> "idle", arg |-> NoTile, passed |-> NoTile, idx |-> NoIndices,
     chans |-> <<>>, work |-> [i \in {} |-> 0], exc |-> "none", ret |-> NoTile]

\* prepare_returned: some prepare call returned normally;
\* fit_completed: some prepare call fitted every region of its dataframe;
\* persist_after_fit: persist has been called since;
\* empty_input_seen: some prepare call found the dataframe empty;
\* df_regions: the regions of the dataframe most recently queried
NoHistory ==
    [prepare_returned |-> FALSE, fit_completed |-> FALSE,
     persist_after_fit |-> FALSE, empty_input_seen |-> FALSE, df_regions |-> {}]

\* __init__ (lines 46-47) with the given configuration
Constructed(cfg, b) ==
    /\ config = cfg
    /\ build = b
    /\ data = NoneData
    /\ data_saved = FALSE
    /\ writes = [r \in Regions |-> 0]
    /\ hist = NoHistory
    /\ last = NoCall
    /\ wk = [w \in Workers |-> IdleWorker]

(***************************************************************************)
(* Inputs                                                                  *)
(***************************************************************************)
\* what a region's cells can look like for one source channel
ChanCases(ests) ==
    { [kept |-> 0, ymean_zero |-> FALSE, fit |-> "unit"],
      [kept |-> 1, ymean_zero |-> TRUE, fit |-> "unit"] }
    \cup { [kept |-> 1, ymean_zero |-> FALSE, fit |-> e] : e \in ests }

\* the cytometry dataframes: any set of regions (none: an empty dataframe)
DfInputs(cfg, ests) ==
    UNION { [R -> [DOMAIN cfg.channel_mapping -> ChanCases(ests)]] : R \in SUBSET Regions }

\* dataframes of region 1 alone whose every channel can be fitted
FittableDfs(cfg, ests) ==
    [{1} -> [DOMAIN cfg.channel_mapping ->
                { [kept |-> 1, ymean_zero |-> FALSE, fit |-> e] : e \in ests }]]

\* what function_data.get_cytometry_data can return to prepare_region_data,
\* which queries it only while self.data is None (line 72 returns first)
Queried(dfs) == IF data.none THEN dfs ELSE { [r \in {} |-> 0] }

Positions(cfg) ==
    [region_index : Regions, tile_x : 0 .. cfg.region_width - 1,
     tile_y : 0 .. cfg.region_height - 1]

\* a tile of two tones laid out as a checkerboard over all five axes
MakeTile(cfg, dt, tones) ==
    [dtype |-> dt,
     v |-> [i \in TileIdx(cfg) |->
              IF (i[1] + i[2] + i[3] + i[4] + i[5]) % 2 = 0 THEN tones[1] ELSE tones[2]]]

Tones(dt) ==
    { <<100, IInfoMax(dt)>>, <<1, 0>> }
    \cup (IF dt.signed THEN { <<IInfoMin(dt), -100>> } ELSE {})
    \cup (IF dt.bits = 32 THEN { <<16777217, 2000000000>> } ELSE {})

TileInputs(cfg, dtypes) ==
    { MakeTile(cfg, p[1], p[2]) :
        p \in UNION { { <<dt, t>> : t \in Tones(dt) } : dt \in dtypes } }

DTypeOf(name) == CHOOSE dt \in DTypes : dt.name = name

Geometry(th, tw, rh, rw) ==
    [tile_height |-> th, tile_width |-> tw, region_height |-> rh, region_width |-> rw]

Config(mapping, geom) ==
    [channel_mapping |-> mapping,
     tile_height |-> geom.tile_height, tile_width |-> geom.tile_width,
     region_height |-> geom.region_height, region_width |-> geom.region_width]

(***************************************************************************)
(* The calls on the instance, each a whole handler                         *)
(***************************************************************************)
Prepare(df) ==
    LET res == prepare_region_data(config, data, df) IN
    /\ data' = res.data
    /\ last' = [NoCall EXCEPT !.op = "prepare", !.exc = res.exc, !.queried = res.queried]
    /\ hist' = [hist EXCEPT
                  !.prepare_returned = @ \/ res.exc = "none",
                  !.fit_completed = @ \/ (res.exc = "none" /\ res.queried),
                  !.empty_input_seen = @ \/ res.exc = "EmptyInputError",
                  !.df_regions = IF res.queried THEN DOMAIN df ELSE @]
    /\ UNCHANGED <<config, build, data_saved, writes, wk>>

Persist ==
    LET res == save_region_data(config, data, data_saved) IN
    /\ data_saved' = res.data_saved
    /\ writes' = [r \in Regions |->
                    IF r \in res.wrote THEN Min2(writes[r] + 1, MaxWrites) ELSE writes[r]]
    /\ last' = [NoCall EXCEPT !.op = "persist", !.exc = res.exc, !.wrote = res.wrote]
    /\ hist' = [hist EXCEPT !.persist_after_fit = @ \/ hist.fit_completed]
    /\ UNCHANGED <<config, build, data, wk>>

Correct(tile, tile_indices) ==
    LET res == _run(config, build, data, tile, tile_indices) IN
    /\ data' = res.data
    /\ last' = [NoCall EXCEPT !.op = "correct", !.exc = res.exc, !.arg = res.arg,
                              !.idx = tile_indices, !.ret = res.tile,
                              !.patches = res.patches]
    /\ UNCHANGED <<config, build, data_saved, writes, hist, wk>>

(***************************************************************************)
(* _run on a worker thread, one step per statement that reads or writes    *)
(* an array: lines 173-183, each pass of the loop, line 203, the return    *)
(***************************************************************************)
Begin(w, tile, tile_indices) ==
    LET look == Lookup(data, tile_indices.region_index)
        conv == Astype32(tile)
    IN /\ wk[w].pc = "idle"
       /\ data' = look.data
       /\ wk' = [wk EXCEPT ![w] =
                   IF look.exc # "none"
                   THEN [IdleWorker EXCEPT !.pc = "done", !.arg = tile, !.passed = tile,
                                           !.idx = tile_indices, !.exc = look.exc]
                   ELSE [IdleWorker EXCEPT !.pc = "loop", !.arg = conv.src,
                                           !.passed = tile, !.idx = tile_indices,
                                           !.chans = Sources(config), !.work = conv.out]]
       /\ UNCHANGED <<config, build, data_saved, writes, hist, last>>

LoopStep(w) ==
    LET me   == wk[w]
        step == ApplyEntry(config, data.dict[me.idx.region_index].imgs, me.work,
                           Head(me.chans), RowOffset(config, me.idx),
                           ColOffset(config, me.idx))
    IN /\ me.pc = "loop"
       /\ me.chans # <<>>
       /\ data' = WithImgs(data, me.idx.region_index, step.imgs)
       /\ wk' = [wk EXCEPT ![w] =
                   IF step.exc # "none"
                   THEN [me EXCEPT !.pc = "done", !.exc = step.exc]
                   ELSE [me EXCEPT !.work = step.tile, !.chans = Tail(me.chans)]]
       /\ UNCHANGED <<config, build, data_saved, writes, hist, last>>

Finish(w) ==
    /\ wk[w].pc = "loop"
    /\ wk[w].chans = <<>>
    /\ wk' = [wk EXCEPT ![w] =
                [@ EXCEPT !.pc = "done",
                          !.ret = ClipAndCast(build, wk[w].passed.dtype, wk[w].work)]]
    /\ UNCHANGED <<config, build, data, data_saved, writes, hist, last>>

Return(w) ==
    /\ wk[w].pc = "done"
    /\ wk' = [wk EXCEPT ![w] = IdleWorker]
    /\ UNCHANGED <<config, build, data, data_saved, writes, hist, last>>

(***************************************************************************)
(* Spec: the life of one instance used from one thread                     *)
(***************************************************************************)
LifecycleEsts == {"ramp"}
LifecycleTiles(cfg) == { MakeTile(cfg, DTypeOf("uint8"), <<100, 255>>) }
LifecycleConfigs == { Config(m, Geometry(1, 1, 1, 2)) : m \in ChannelMappings }

Init == \E cfg \in LifecycleConfigs : Constructed(cfg, "x86_64")

Next ==
    \/ \E df \in Queried(DfInputs(config, LifecycleEsts)) : Prepare(df)
    \/ Persist
    \/ \E tile \in LifecycleTiles(config), idx \in Positions(config) :
          Correct(tile, idx)

Spec == Init /\ [][Next]_vars

(***************************************************************************)
(* SpecConc: prepare and persist on the main thread, _run on two workers   *)
(***************************************************************************)
ConcConfig == Config([c \in {"A", "B"} |-> IF c = "A" THEN "all" ELSE "D"],
                     Geometry(1, 1, 1, 2))

InitConc == Constructed(ConcConfig, "x86_64")

NextConc ==
    \/ \E df \in Queried(DfInputs(config, LifecycleEsts)) : Prepare(df)
    \/ Persist
    \/ \E w \in Workers, tile \in LifecycleTiles(config), idx \in Positions(config) :
          Begin(w, tile, idx)
    \/ \E w \in Workers : LoopStep(w)
    \/ \E w \in Workers : Finish(w)
    \/ \E w \in Workers : Return(w)

SpecConc == InitConc /\ [][NextConc]_vars

(***************************************************************************)
(* _run as a function of the cache, the tile and its indices: the cache is *)
(* built by one prepare call and _run is applied once to each input drawn. *)
(***************************************************************************)
PrepareOnce(dfs) == data.none /\ \E df \in dfs : Prepare(df)

CorrectOnce(tiles) ==
    /\ last.op # "correct"
    /\ \E tile \in tiles, idx \in Positions(config) : Correct(tile, idx)

\* SpecNum: over the element types, tones, surfaces and builds
NumConfigs ==
    { Config(m, Geometry(1, 1, 1, 1)) :
        m \in { [c \in {"A"} |-> "all"],
                [c \in {"A", "B"} |-> IF c = "A" THEN "all" ELSE "D"] } }

InitNum == \E cfg \in NumConfigs, b \in Builds : Constructed(cfg, b)

NextNum ==
    \/ PrepareOnce(FittableDfs(config, Ests))
    \/ CorrectOnce(TileInputs(config, DTypes))

SpecNum == InitNum /\ [][NextNum]_vars

\* SpecRoute: over the channel mappings
RouteConfigs == { Config(m, Geometry(1, 2, 1, 1)) : m \in ChannelMappings }

InitRoute == \E cfg \in RouteConfigs, b \in Builds : Constructed(cfg, b)

NextRoute ==
    \/ PrepareOnce(FittableDfs(config, {"half", "three", "ramp"}))
    \/ CorrectOnce(TileInputs(config,
                      {DTypeOf("uint8"), DTypeOf("int16"), DTypeOf("int32")}))

SpecRoute == InitRoute /\ [][NextRoute]_vars

\* SpecGeom: over the tile and region geometries
GeomConfigs ==
    { Config([c \in {"A"} |-> "all"], Geometry(th, tw, rh, rw)) :
        th \in 1 .. MaxTileDim, tw \in 1 .. MaxTileDim,
        rh \in 1 .. MaxGridDim, rw \in 1 .. MaxGridDim }

InitGeom == \E cfg \in GeomConfigs : Constructed(cfg, "x86_64")

NextGeom ==
    \/ PrepareOnce(FittableDfs(config, {"ramp"}))
    \/ CorrectOnce(TileInputs(config, {DTypeOf("uint16")}))

SpecGeom == InitGeom /\ [][NextGeom]_vars

(***************************************************************************)
(* Properties of prepare and persist (Spec)                                *)
(***************************************************************************)
\* the source channels every complete cache entry has an image and a model for
SourceSet == DOMAIN config.channel_mapping

\* C1: persist fails with NotPreparedError whenever no prepare call has yet
\* returned normally on the instance, also when every earlier prepare call
\* failed, on empty input or part-way through fitting the regions.
PersistNeedsSuccessfulPrepare ==
    (last.op = "persist" /\ ~hist.prepare_returned) => last.exc = "NotPreparedError"

\* persist went through although the only prepare call failed while fitting
PersistedAfterFailedPrepare ==
    /\ last.op = "persist"
    /\ last.exc = "none"
    /\ ~hist.prepare_returned
    /\ ~hist.empty_input_seen
    /\ data_saved

\* C2: the first persist that follows a prepare call which fitted all its
\* regions writes exactly one artifact per cached region and sets the saved
\* flag; every later persist writes nothing; no region's artifact is written
\* more than once.
PersistWritesOnce ==
    [][last'.op = "persist" =>
          /\ (hist.fit_completed /\ ~hist.persist_after_fit) =>
                /\ last'.exc = "none"
                /\ last'.wrote = DOMAIN data.dict
                /\ data_saved'
          /\ hist.persist_after_fit => (last'.wrote = {} /\ writes' = writes)
          /\ \A r \in Regions : writes'[r] <= 1]_vars

\* persist raised out of np.stack after a prepare call that fitted its regions
PersistFailedOnEmptyMapping ==
    /\ last.op = "persist"
    /\ last.exc = "ValueError"
    /\ hist.fit_completed
    /\ DOMAIN data.dict # {}
    /\ ~data_saved

\* C3: when the cache is already populated a prepare call is a no-op: it
\* returns normally without querying the records or fitting, and leaves
\* every cache entry, the saved flag and the written artifacts as they were.
PrepareIsIdempotent ==
    [][(~data.none /\ last'.op = "prepare") =>
          /\ last'.exc = "none"
          /\ ~last'.queried
          /\ data' = data
          /\ data_saved' = data_saved
          /\ writes' = writes]_vars

\* a prepare call made after the cache was populated and persisted
PrepareAfterPersistWasNoOp ==
    /\ last.op = "prepare"
    /\ last.exc = "none"
    /\ ~last.queried
    /\ hist.fit_completed
    /\ DOMAIN data.dict # {}
    /\ data_saved

\* C4: a prepare call that finds the record set empty fails with
\* EmptyInputError and leaves the cache unpopulated and the saved flag unset,
\* and a prepare call on an unpopulated cache always queries and fits again.
EmptyInputLeavesCacheUnpopulated ==
    [][(data.none /\ last'.op = "prepare") =>
          /\ last'.queried
          /\ hist'.df_regions = {} =>
                /\ last'.exc = "EmptyInputError"
                /\ data' = NoneData
                /\ ~data_saved'
          /\ hist'.df_regions # {} => (last'.exc # "EmptyInputError" /\ ~data'.none)]_vars

\* a prepare call that fitted its regions after an earlier one found no records
FittedAfterEmptyInput ==
    /\ hist.empty_input_seen
    /\ hist.fit_completed
    /\ last.op = "prepare"
    /\ last.queried
    /\ last.exc = "none"
    /\ DOMAIN data.dict = hist.df_regions

\* C10: whenever the cache counts as populated (a prepare call has just
\* returned normally, or persist was allowed), it holds a complete
\* (images, models) entry for every region of the record set queried.
PopulatedCacheIsComplete ==
    (\/ last.op = "prepare" /\ last.exc = "none"
     \/ last.op = "persist" /\ last.exc # "NotPreparedError") =>
        /\ ~data.none
        /\ DOMAIN data.dict = hist.df_regions
        /\ \A r \in DOMAIN data.dict :
              /\ DOMAIN data.dict[r].imgs = SourceSet
              /\ DOMAIN data.dict[r].ests = SourceSet

\* a prepare call returned normally over a cache that lacks a queried region
NoOpPrepareOverPartialCache ==
    /\ last.op = "prepare"
    /\ last.exc = "none"
    /\ ~last.queried
    /\ ~data.none
    /\ hist.df_regions \ DOMAIN data.dict # {}

(***************************************************************************)
(* Properties of correct                                                   *)
(***************************************************************************)
\* C5 (Spec): correct for a region with no entry in the populated cache fails
\* with UnpreparedRegionError, returns no tile and leaves the cache, the
\* saved flag and the written artifacts as they were.
MissingRegionFails ==
    [][(/\ last'.op = "correct"
        /\ ~data.none
        /\ last'.idx.region_index \notin DOMAIN data.dict) =>
          /\ last'.exc = "UnpreparedRegionError"
          /\ last'.ret = NoTile
          /\ data' = data
          /\ data_saved' = data_saved
          /\ writes' = writes]_vars

\* correct was refused for a region absent from a cache that holds another
MissingRegionWasRefused ==
    /\ last.op = "correct"
    /\ last.exc = "UnpreparedRegionError"
    /\ ~data.none
    /\ DOMAIN data.dict # {}
    /\ last.idx.region_index \notin DOMAIN data.dict

\* f > n, for a float32 f and an integer n >= 0
FAbove(f, n) ==
    IF f.k = "nan" THEN FALSE
    ELSE IF f.k = "inf" THEN f.s = 1
    ELSE IF f.s = -1 \/ f.m = 0 THEN FALSE
    ELSE IF BitLen(f.m) + f.e > 31 THEN TRUE
    ELSE IF f.e >= 0 THEN f.m * (2 ^ f.e) > n
    ELSE IF -f.e > 30 THEN n = 0
    ELSE LET d == 2 ^ (-f.e)
         IN f.m \div d > n \/ (f.m \div d = n /\ f.m % d # 0)

\* f < n, for a float32 f and an integer n <= 0
FBelow(f, n) ==
    IF f.k = "nan" THEN FALSE
    ELSE IF n = -2147483647 - 1
    THEN /\ f.s = -1
         /\ \/ f.k = "inf"
            \/ BitLen(f.m) + f.e > 32
            \/ BitLen(f.m) + f.e = 32 /\ f.m # 1
    ELSE FAbove([f EXCEPT !.s = -f.s], -n)

\* the quotients of the most recent correct call, before clipping
Quotients ==
    RunLoop(config, data.dict[last.idx.region_index].imgs, TileToF32(last.arg),
            Sources(config), last.idx.tile_y * config.tile_height,
            last.idx.tile_x * config.tile_width, NoPatches).tile

\* C6 (SpecNum): for every integer element type and every surface, each
\* element correct returns lies within the type's [min, max]: a quotient
\* above max comes out as max and one below min as min, never wrapped.
CorrectClipsToDType ==
    (last.op = "correct" /\ last.exc = "none") =>
        LET dt == last.ret.dtype
            q  == Quotients
        IN \A i \in DOMAIN last.ret.v :
              /\ last.ret.v[i] >= IInfoMin(dt)
              /\ last.ret.v[i] <= IInfoMax(dt)
              /\ FAbove(q[i], IInfoMax(dt)) => last.ret.v[i] = IInfoMax(dt)
              /\ FBelow(q[i], IInfoMin(dt)) => last.ret.v[i] = IInfoMin(dt)

\* an int32 element whose quotient exceeds the type's max came out as its min
Int32QuotientWrapped ==
    /\ last.op = "correct"
    /\ last.exc = "none"
    /\ last.ret.dtype.name = "int32"
    /\ \E i \in DOMAIN last.ret.v :
          /\ last.arg.v[i] = 2000000000
          /\ last.ret.v[i] = IInfoMin(last.ret.dtype)

\* whether a mapping entry's target reaches the element at index i
AtTarget(target_channel, i) ==
    \/ target_channel = "all"
    \/ /\ target_channel # "all"
       /\ <<i[1], i[3]>> = ChannelCoordinates[target_channel]

RECURSIVE DividedBy(_, _)
DividedBy(f, divisors) ==
    IF divisors = <<>> THEN f
    ELSE DividedBy(FDiv(f, Head(divisors)), Tail(divisors))

\* C7 (SpecRoute): an entry with target "all" divides every (cycle, z,
\* channel) plane by its sliced surface, an entry with a specific target
\* only the planes at that target's (cycle, channel) coordinate, and an
\* element no entry reaches comes out equal to its input value.
RoutingByTarget ==
    (last.op = "correct" /\ last.exc = "none") =>
        LET imgs == data.dict[last.idx.region_index].imgs
            r0   == last.idx.tile_y * config.tile_height
            c0   == last.idx.tile_x * config.tile_width
            dt   == last.ret.dtype
        IN \A i \in DOMAIN last.ret.v :
              LET reach == SelectSeq(Sources(config),
                              LAMBDA ch : AtTarget(config.channel_mapping[ch], i))
                  divs  == [k \in 1 .. Len(reach) |->
                               imgs[reach[k]][<<r0 + i[4], c0 + i[5]>>]]
                  q     == DividedBy(IntToF32(last.arg.v[i]), divs)
              IN /\ last.ret.v[i] =
                       F32ToInt(build, dt, ClipF32(q, IInfoMin(dt), IInfoMax(dt)))
                 /\ reach = <<>> => last.ret.v[i] = last.arg.v[i]

\* an int32 element that no mapping entry reaches came out changed
UntargetedElementChanged ==
    /\ last.op = "correct"
    /\ last.exc = "none"
    /\ \E i \in DOMAIN last.ret.v :
          /\ \A ch \in DOMAIN config.channel_mapping :
                ~AtTarget(config.channel_mapping[ch], i)
          /\ last.arg.v[i] = 16777217
          /\ last.ret.v[i] = 16777216

\* C8 (SpecConc): correct calls running on several threads, in any
\* interleaving, change neither the cache, the saved flag, the written
\* artifacts nor their own argument, and each returns what it returns alone.
ConcurrentCorrectIsReadOnly ==
    [][wk' # wk =>
          /\ data' = data
          /\ data_saved' = data_saved
          /\ writes' = writes
          /\ \A w \in Workers :
                /\ wk'[w].arg = wk'[w].passed
                /\ (wk[w].pc # "done" /\ wk'[w].pc = "done") =>
                      LET alone == _run(config, build, data, wk'[w].passed, wk'[w].idx)
                      IN /\ wk'[w].exc = alone.exc
                         /\ wk'[w].ret = alone.tile]_vars

\* one call finished with a tile while another was part-way through the
\* loop over the same region's images
CallsOverlapped ==
    /\ wk["w1"].pc = "done"
    /\ wk["w1"].exc = "none"
    /\ wk["w1"].ret # NoTile
    /\ wk["w2"].pc = "loop"
    /\ Len(wk["w2"].chans) = 1
    /\ wk["w1"].idx.region_index = wk["w2"].idx.region_index

\* the window of the claim: rows [tile_y*tile_height, +tile_height) and
\* columns [tile_x*tile_width, +tile_width)
Window(cfg, idx) ==
    (idx.tile_y * cfg.tile_height .. idx.tile_y * cfg.tile_height + cfg.tile_height - 1)
    \X (idx.tile_x * cfg.tile_width .. idx.tile_x * cfg.tile_width + cfg.tile_width - 1)

\* C9 (SpecGeom): at every tile position of the region, correct slices that
\* window from the region's image; the window lies inside the rendered image
\* of shape (region_height*tile_height, region_width*tile_width), windows of
\* distinct positions are disjoint, and together they cover the image.
WindowGeometry ==
    LET shape == (0 .. config.region_height * config.tile_height - 1)
                 \X (0 .. config.region_width * config.tile_width - 1)
        tiles == { idx \in Positions(config) : idx.region_index = 1 }
    IN /\ \A r \in DOMAIN data.dict : \A ch \in DOMAIN data.dict[r].imgs :
             DOMAIN data.dict[r].imgs[ch] = shape
       /\ \A idx \in tiles : Window(config, idx) \subseteq shape
       /\ \A a, b \in tiles : a # b => Window(config, a) \cap Window(config, b) = {}
       /\ UNION { Window(config, idx) : idx \in tiles } = shape
       /\ (last.op = "correct" /\ last.idx.region_index \in DOMAIN data.dict) =>
             /\ last.exc = "none"
             /\ DOMAIN last.patches = SourceSet
             /\ \A ch \in SourceSet :
                   last.patches[ch] =
                      [p \in (0 .. config.tile_height - 1) \X (0 .. config.tile_width - 1) |->
                          data.dict[last.idx.region_index].imgs[ch][
                             <<last.idx.tile_y * config.tile_height + p[1],
                               last.idx.tile_x * config.tile_width + p[2]>>]]

\* a tile at a position off both region edges, of unequal height and width
InnerTileCorrected ==
    /\ last.op = "correct"
    /\ last.exc = "none"
    /\ last.idx.tile_y > 0
    /\ last.idx.tile_x > 0
    /\ config.tile_height # config.tile_width
    /\ DOMAIN last.patches = SourceSet

====
